---- MODULE Spec2Model ----
(***************************************************************************)
(* Model of src/backdoor.rs: the Transport trait and its four adapters     *)
(* (WebTransportClient, QuinnClient, WebRTCClient, WebSocketClient).       *)
(*                                                                         *)
(* One run of the model is one choice of adapter (variant).  The process   *)
(* "cli" calls connect, the process "srv" calls listen, and the tasks of   *)
(* Tasks call send / receive on the instances that exist.  "fp" is a       *)
(* foreign WebSocket endpoint on the network (not built from this code):   *)
(* it may connect to the listening address, send a Close frame, or go away.*)
(***************************************************************************)
EXTENDS Integers, Sequences, FiniteSets, TLC

VARIABLES
    variant,    \* the adapter the caller selected
    ctor,       \* ctor[i]: position of the connect (cli) / listen (srv) call
    addr,       \* addr[i]: the address string passed to connect / listen
    netActs,    \* netActs[i]: network actions the connect / listen call performed
    handle,     \* handle[i]: the resource the struct's single field holds
    chan,       \* chan[i]: WebRTCClient.data_channel ("Some" / "None")
    link,       \* link[i]: the remote end i's connection is established with
    listener,   \* the TcpListener of WebSocketClient::listen
    backlog,    \* TCP connections waiting in the listener's accept queue
    tcp,        \* tcp[c]: state of connector c's TCP connection to the listener
    accepted,   \* connectors returned by listener.accept(), in order
    st,         \* st[i]: protocol state of i's WebSocketStream
    broken,     \* the TCP connection under the WebSocket streams has failed
    wire,       \* wire[i]: units written towards i and not yet read by it
    wireOut,    \* wireOut[i]: every unit i has written to its stream (history)
    lock,       \* lock[i]: tasks holding the write guard of i's RwLock
    task,       \* task[t]: the call task t is executing
    calls,      \* number of messages handed to send / to the foreign endpoint, and of receive calls
    acqLog,     \* acqLog[i]: send calls on i, in the order they took the write guard
    sendLog,    \* sendLog[i]: finished send calls on i, in order of return
    recvLog     \* recvLog[i]: finished receive calls on i, in order of return

vars == <<variant, ctor, addr, netActs, handle, chan, link, listener, backlog,
          tcp, accepted, st, broken, wire, wireOut, lock, task, calls,
          acqLog, sendLog, recvLog>>

netVars  == <<listener, backlog, tcp, accepted>>
connVars == <<st, broken, wire, wireOut>>
ctorVars == <<ctor, addr, netActs, handle, chan, link>>
callVars == <<lock, task, calls, acqLog, sendLog, recvLog>>

-----------------------------------------------------------------------------
(* Bounds and input sets *)

MaxCalls == 3

Variants == {"WebTransport", "Quinn", "WebRTC", "WebSocket"}
Inst == {"cli", "srv"}
Connectors == {"cli", "fp"}
Tasks == {"t1", "t2"}
Payloads == {<<>>, <<1, 2>>}
CloseReasons == {<<>>, <<3>>}
Addrs == {"127.0.0.1:8080", "ws://127.0.0.1:8080", "https://127.0.0.1:8080", "not an address"}

Other(i) == IF i = "cli" THEN "srv" ELSE "cli"

-----------------------------------------------------------------------------
(* Address parsing, as each adapter does it *)

\* addr.parse::<SocketAddr>(): an IP address and a port, nothing else.
SocketAddrParse(a) == a = "127.0.0.1:8080"

\* Url::parse(addr): an absolute URL with a scheme.
UrlParse(a) == a \in {"ws://127.0.0.1:8080", "https://127.0.0.1:8080"}

\* connect_async(url): the request's scheme must be ws or wss.
WsScheme(a) == a = "ws://127.0.0.1:8080"

\* WebTransport::new(url) throws unless the URL is an https URL.
WebTransportUrl(a) == a = "https://127.0.0.1:8080"

\* TcpListener::bind(addr): addr must resolve to a socket address.
BindResolves(a) == a = "127.0.0.1:8080"

\* The socket address a URL or a host:port string names.
HostPort(a) == IF a = "not an address" THEN "" ELSE "127.0.0.1:8080"

-----------------------------------------------------------------------------
(* Messages and their wire form *)

\* tungstenite's Message, restricted to the variants that occur.
Binary(d) == [op |-> "bin", data |-> d]
Close(r)  == [op |-> "close", data |-> r]

\* Message::into_data(): the payload of a data message, the reason of a
\* Close frame.
into_data(m) == m.data

\* A frame on the wire: a header unit carrying opcode and length, then one
\* unit per payload byte.  by is the task (or foreign endpoint) that wrote
\* the unit.
Unit(by, h, op, v) == [by |-> by, hdr |-> h, op |-> op, v |-> v]
Frame(by, m) ==
    <<Unit(by, TRUE, m.op, Len(m.data))>> \o
    [k \in 1..Len(m.data) |-> Unit(by, FALSE, m.op, m.data[k])]

\* The reader's view of the pending units.
FrameReady(w) == w # <<>> /\ w[1].hdr /\ Len(w) >= 1 + w[1].v
FrameBad(w)   == w # <<>> /\ ~w[1].hdr
ReadFrame(w)  == [op |-> w[1].op, data |-> [k \in 1..w[1].v |-> w[k + 1].v]]
DropFrame(w)  == SubSeq(w, 2 + w[1].v, Len(w))

IdleTask == [pc |-> "idle", op |-> "none", self |-> "cli", data |-> <<>>, k |-> 0, after |-> {}]

-----------------------------------------------------------------------------
Init ==
    /\ variant \in Variants
    /\ ctor = [i \in Inst |-> "start"]
    /\ addr = [i \in Inst |-> ""]
    /\ netActs = [i \in Inst |-> {}]
    /\ handle = [i \in Inst |-> "none"]
    /\ chan = [i \in Inst |-> "None"]
    /\ link = [i \in Inst |-> "none"]
    /\ listener = "none"
    /\ backlog = <<>>
    /\ tcp = [c \in Connectors |-> "none"]
    /\ accepted = <<>>
    /\ st = [i \in Inst |-> "open"]
    /\ broken = FALSE
    /\ wire = [i \in Inst |-> <<>>]
    /\ wireOut = [i \in Inst |-> <<>>]
    /\ lock = [i \in Inst |-> {}]
    /\ task = [t \in Tasks |-> IdleTask]
    /\ calls = 0
    /\ acqLog = [i \in Inst |-> <<>>]
    /\ sendLog = [i \in Inst |-> <<>>]
    /\ recvLog = [i \in Inst |-> <<>>]

-----------------------------------------------------------------------------
(* connect / listen of the three adapters without a realised data path *)

SetCtor(i, a, pc, acts, h, c) ==
    /\ ctor' = [ctor EXCEPT ![i] = pc]
    /\ addr' = [addr EXCEPT ![i] = a]
    /\ netActs' = [netActs EXCEPT ![i] = @ \cup acts]
    /\ handle' = [handle EXCEPT ![i] = h]
    /\ chan' = [chan EXCEPT ![i] = c]

\* WebTransportClient::connect: WebTransport::new(addr)?, then Ok.  The
\* session's `ready` promise is not awaited.
WebTransportClient_connect ==
    /\ variant = "WebTransport" /\ ctor["cli"] = "start"
    /\ \E a \in Addrs :
          IF WebTransportUrl(a)
          THEN SetCtor("cli", a, "ok", {"webtransport_new"}, "transport", "None")
          ELSE SetCtor("cli", a, "err", {}, "none", "None")
    /\ UNCHANGED <<variant, link, netVars, connVars, callVars>>

\* The outcome of listen for the adapters that cannot listen.
WebTransportListenOutcome(a) == [ok |-> FALSE, acts |-> {}]

WebRTCListenBinds(a) == [ok |-> UrlParse(a), acts |-> {"peer_connection"}]
WebRTCListenOutcome(a) == [ok |-> FALSE, acts |-> {}]

\* WebTransportClient::listen: Err, whatever the address.
WebTransportClient_listen ==
    /\ variant = "WebTransport" /\ ctor["srv"] = "start"
    /\ \E a \in Addrs :
          LET r == WebTransportListenOutcome(a) IN
          SetCtor("srv", a, IF r.ok THEN "ok" ELSE "err", r.acts,
                  IF r.ok THEN "transport" ELSE "none", "None")
    /\ UNCHANGED <<variant, link, netVars, connVars, callVars>>

\* QuinnClient::connect: parse the address, create a client endpoint, Ok.
\* socket_addr is not used: no connection to it is opened.
QuinnClient_connect ==
    /\ variant = "Quinn" /\ ctor["cli"] = "start"
    /\ \E a \in Addrs, endpointOk \in BOOLEAN :
          IF ~SocketAddrParse(a)
          THEN SetCtor("cli", a, "err", {}, "none", "None")
          ELSE IF ~endpointOk
          THEN SetCtor("cli", a, "err", {"endpoint_client"}, "none", "None")
          ELSE SetCtor("cli", a, "ok", {"endpoint_client"}, "endpoint", "None")
    /\ UNCHANGED <<variant, link, netVars, connVars, callVars>>

\* QuinnClient::listen: parse the address, bind a server endpoint, Ok.
\* No incoming connection is awaited.
QuinnClient_listen ==
    /\ variant = "Quinn" /\ ctor["srv"] = "start"
    /\ \E a \in Addrs, endpointOk \in BOOLEAN :
          IF ~SocketAddrParse(a)
          THEN SetCtor("srv", a, "err", {}, "none", "None")
          ELSE IF ~endpointOk
          THEN SetCtor("srv", a, "err", {"endpoint_server"}, "none", "None")
          ELSE SetCtor("srv", a, "ok", {"endpoint_server", "bind"}, "endpoint", "None")
    /\ UNCHANGED <<variant, link, netVars, connVars, callVars>>

\* WebRTCClient::connect, up to the first await: new_peer_connection(config).
\* _addr is ignored.
WebRTCClient_connect_pc ==
    /\ variant = "WebRTC" /\ ctor["cli"] = "start"
    /\ \E a \in Addrs, pcOk \in BOOLEAN :
          IF pcOk
          THEN SetCtor("cli", a, "channel", {"peer_connection"}, "none", "None")
          ELSE SetCtor("cli", a, "err", {"peer_connection"}, "none", "None")
    /\ UNCHANGED <<variant, link, netVars, connVars, callVars>>

\* The data_channel field of the struct connect builds (line 111).
ChannelMissing == "None"
ChannelOnConnect == "Some"

\* WebRTCClient::connect, the rest: create_data_channel("data"), then Ok with
\* data_channel: Some(..).  No offer / answer is exchanged with any peer.
WebRTCClient_connect_dc ==
    /\ variant = "WebRTC" /\ ctor["cli"] = "channel"
    /\ \E dcOk \in BOOLEAN :
          IF dcOk
          THEN SetCtor("cli", addr["cli"], "ok", {"data_channel"}, "peer_connection",
                       ChannelOnConnect)
          ELSE SetCtor("cli", addr["cli"], "err", {}, "none", "None")
    /\ UNCHANGED <<variant, link, netVars, connVars, callVars>>

\* WebRTCClient::listen: Err, whatever the address.
WebRTCClient_listen ==
    /\ variant = "WebRTC" /\ ctor["srv"] = "start"
    /\ \E a \in Addrs :
          LET r == WebRTCListenOutcome(a) IN
          SetCtor("srv", a, IF r.ok THEN "ok" ELSE "err", r.acts,
                  IF r.ok THEN "peer_connection" ELSE "none", "None")
    /\ UNCHANGED <<variant, link, netVars, connVars, callVars>>

-----------------------------------------------------------------------------
(* WebSocketClient::connect and WebSocketClient::listen *)

\* Url::parse(addr)?
WebSocketClient_connect_parse ==
    /\ variant = "WebSocket" /\ ctor["cli"] = "start"
    /\ \E a \in Addrs :
          SetCtor("cli", a, IF UrlParse(a) THEN "tcp" ELSE "err", {}, "none", "None")
    /\ UNCHANGED <<variant, link, netVars, connVars, callVars>>

\* connect_async(url), first part: the scheme check, then the TCP connection
\* to the URL's host and port, then the upgrade request.
WebSocketClient_connect_tcp ==
    /\ variant = "WebSocket" /\ ctor["cli"] = "tcp"
    /\ LET a == addr["cli"]
           up == listener = "bound" /\ HostPort(addr["srv"]) = HostPort(a) IN
       IF ~WsScheme(a)
       THEN /\ SetCtor("cli", a, "err", {}, "none", "None")
            /\ UNCHANGED <<backlog, tcp>>
       ELSE IF up
       THEN /\ SetCtor("cli", a, "handshake", {"tcp_connect"}, "none", "None")
            /\ backlog' = Append(backlog, "cli")
            /\ tcp' = [tcp EXCEPT !["cli"] = "pending"]
       ELSE /\ SetCtor("cli", a, "err", {"tcp_connect"}, "none", "None")
            /\ tcp' = [tcp EXCEPT !["cli"] = "refused"]
            /\ UNCHANGED backlog
    /\ UNCHANGED <<variant, link, listener, accepted, connVars, callVars>>

\* connect_async(url), second part: await the server's handshake response,
\* then Ok(WebSocketClient { socket }).
WebSocketClient_connect_handshake ==
    /\ variant = "WebSocket" /\ ctor["cli"] = "handshake"
    /\ \/ /\ tcp["cli"] = "accepted" /\ link["srv"] = "cli" /\ ~broken
          /\ SetCtor("cli", addr["cli"], "ok", {}, "stream", "None")
          /\ link' = [link EXCEPT !["cli"] = "srv"]
       \/ /\ tcp["cli"] = "reset" \/ broken
          /\ SetCtor("cli", addr["cli"], "err", {}, "none", "None")
          /\ UNCHANGED link
    /\ UNCHANGED <<variant, netVars, connVars, callVars>>

\* TcpListener::bind(addr).await?  and the println.  The bind fails when
\* addr names no socket address, or when the address cannot be bound.
WebSocketClient_listen_bind ==
    /\ variant = "WebSocket" /\ ctor["srv"] = "start"
    /\ \E a \in Addrs, bindOk \in BOOLEAN :
          IF ~BindResolves(a)
          THEN /\ SetCtor("srv", a, "err", {}, "none", "None")
               /\ UNCHANGED listener
          ELSE IF ~bindOk
          THEN /\ SetCtor("srv", a, "err", {"bind"}, "none", "None")
               /\ UNCHANGED listener
          ELSE /\ SetCtor("srv", a, "accept", {"bind"}, "none", "None")
               /\ listener' = "bound"
    /\ UNCHANGED <<variant, link, backlog, tcp, accepted, connVars, callVars>>

\* listener.accept().await?: suspended while the accept queue is empty, then
\* takes the first waiting connection.
WebSocketClient_listen_accept ==
    /\ variant = "WebSocket" /\ ctor["srv"] = "accept"
    /\ backlog # <<>>
    /\ accepted' = Append(accepted, Head(backlog))
    /\ backlog' = Tail(backlog)
    /\ tcp' = [tcp EXCEPT ![Head(backlog)] = "accepted"]
    /\ ctor' = [ctor EXCEPT !["srv"] = "handshake"]
    /\ netActs' = [netActs EXCEPT !["srv"] = @ \cup {"accept"}]
    /\ UNCHANGED <<variant, addr, handle, chan, link, listener, connVars, callVars>>

\* What becomes of the TcpListener when listen returns: `listener` is a local
\* of listen and is dropped at the end of its scope.
ListenerLeaked == "bound"
ListenerOnReturn == "dropped"

\* accept_async(stream).await?, then Ok(WebSocketClient { socket }).  The
\* handshake with a foreign endpoint may fail.  On return the listener is
\* dropped and the connections still waiting in its queue are reset.
WebSocketClient_listen_handshake ==
    /\ variant = "WebSocket" /\ ctor["srv"] = "handshake"
    /\ LET c == accepted[Len(accepted)]
           after == ListenerOnReturn
           waiting == {backlog[k] : k \in 1..Len(backlog)} IN
       /\ \E hsOk \in BOOLEAN :
             /\ c = "cli" => hsOk
             /\ IF hsOk
                THEN /\ SetCtor("srv", addr["srv"], "ok", {}, "stream", "None")
                     /\ link' = [link EXCEPT !["srv"] = c]
                     /\ tcp' = [x \in Connectors |->
                                  IF after = "dropped" /\ x \in waiting
                                  THEN "reset" ELSE tcp[x]]
                ELSE /\ SetCtor("srv", addr["srv"], "err", {}, "none", "None")
                     /\ UNCHANGED link
                     /\ tcp' = [x \in Connectors |->
                                  IF x = c \/ (after = "dropped" /\ x \in waiting)
                                  THEN "reset" ELSE tcp[x]]
       /\ listener' = after
       /\ backlog' = IF after = "dropped" THEN <<>> ELSE backlog
    /\ UNCHANGED <<variant, accepted, connVars, callVars>>

-----------------------------------------------------------------------------
(* The network around the WebSocket adapter *)

\* A foreign WebSocket endpoint opens a TCP connection to the listening
\* address and sends its upgrade request.
Fp_connect ==
    /\ variant = "WebSocket" /\ tcp["fp"] = "none" /\ listener = "bound"
    /\ tcp' = [tcp EXCEPT !["fp"] = "pending"]
    /\ backlog' = Append(backlog, "fp")
    /\ UNCHANGED <<variant, ctorVars, listener, accepted, connVars, callVars>>

\* The foreign endpoint sends one binary message.
Fp_send ==
    /\ variant = "WebSocket" /\ link["srv"] = "fp" /\ tcp["fp"] = "accepted"
    /\ ~broken /\ calls < MaxCalls
    /\ \E d \in Payloads :
          wire' = [wire EXCEPT !["srv"] = @ \o Frame("fp", Binary(d))]
    /\ calls' = calls + 1
    /\ UNCHANGED <<variant, ctorVars, netVars, st, broken, wireOut, lock, task,
                   acqLog, sendLog, recvLog>>

\* The foreign endpoint closes the connection cleanly: a Close frame, with or
\* without a reason, and nothing after it.
Fp_close ==
    /\ variant = "WebSocket" /\ link["srv"] = "fp" /\ tcp["fp"] = "accepted"
    /\ ~broken
    /\ \E r \in CloseReasons :
          wire' = [wire EXCEPT !["srv"] = @ \o Frame("fp", Close(r))]
    /\ tcp' = [tcp EXCEPT !["fp"] = "closed"]
    /\ UNCHANGED <<variant, ctorVars, listener, backlog, accepted, st, broken,
                   wireOut, callVars>>

\* The TCP connection under an established WebSocket connection fails.
NetBreak ==
    /\ variant = "WebSocket" /\ link["srv"] # "none" /\ ~broken
    /\ broken' = TRUE
    /\ UNCHANGED <<variant, ctorVars, netVars, st, wire, wireOut, callVars>>

-----------------------------------------------------------------------------
(* Calls of send and receive *)

Ok(v)  == [ok |-> TRUE, val |-> v]
Err    == [ok |-> FALSE, val |-> <<>>]

\* The calls that have been made and have not started yet.
Waiting == {u \in Tasks : task[u].pc = "called"}

\* The task table once t's call has started: t waits no longer.
Started(t) == [u \in Tasks |-> [task[u] EXCEPT !.after = @ \ {t}]]

\* A task calls send(data) or receive() on an instance that connect / listen
\* returned.  after holds the tasks whose calls were made earlier and had not
\* started when this call was made.
Call(t) ==
    /\ task[t].pc = "idle" /\ calls < MaxCalls
    /\ \E i \in Inst, op \in {"send", "receive"}, d \in Payloads :
          /\ ctor[i] = "ok"
          /\ op = "receive" => d = <<>>
          /\ task' = [task EXCEPT ![t] =
                [pc |-> "called", op |-> op, self |-> i, data |-> d,
                 k |-> 0, after |-> Waiting]]
    /\ calls' = calls + 1
    /\ UNCHANGED <<variant, ctorVars, netVars, connVars, lock, acqLog, sendLog, recvLog>>

At(t, v, op, pc) == variant = v /\ task[t].op = op /\ task[t].pc = pc

\* The call returns res to its caller.
Return(t, res, src) ==
    LET c == task[t]
        up == link[c.self] # "none" /\ st[c.self] = "open" /\ ~broken IN
    /\ task' = [Started(t) EXCEPT ![t] = IdleTask]
    /\ IF c.op = "send"
       THEN /\ sendLog' = [sendLog EXCEPT ![c.self] =
                   Append(@, [data |-> c.data, ok |-> res.ok, up |-> up, src |-> src])]
            /\ UNCHANGED recvLog
       ELSE /\ recvLog' = [recvLog EXCEPT ![c.self] =
                   Append(@, [val |-> res.val, ok |-> res.ok, src |-> src])]
            /\ UNCHANGED sendLog

\* WebTransportClient::send: Ok(()), _data is not used.
WebTransportClient_send(t) ==
    /\ At(t, "WebTransport", "send", "called")
    /\ Return(t, Ok(<<>>), "stub")
    /\ UNCHANGED <<variant, ctorVars, netVars, connVars, lock, calls, acqLog>>

\* WebTransportClient::receive: Ok(vec![]).
WebTransportClient_receive(t) ==
    /\ At(t, "WebTransport", "receive", "called")
    /\ Return(t, Ok(<<>>), "stub")
    /\ UNCHANGED <<variant, ctorVars, netVars, connVars, lock, calls, acqLog>>

\* QuinnClient::send: Ok(()), data is not used.
QuinnClient_send(t) ==
    /\ At(t, "Quinn", "send", "called")
    /\ Return(t, Ok(<<>>), "stub")
    /\ UNCHANGED <<variant, ctorVars, netVars, connVars, lock, calls, acqLog>>

\* QuinnClient::receive: Ok(vec![]).
QuinnClient_receive(t) ==
    /\ At(t, "Quinn", "receive", "called")
    /\ Return(t, Ok(<<>>), "stub")
    /\ UNCHANGED <<variant, ctorVars, netVars, connVars, lock, calls, acqLog>>

\* The data channel carries messages only once the peer connection is
\* established with a remote peer.
ChannelOpen(i) == link[i] # "none"

\* WebRTCClient::send: with a channel, channel.send(Binary(data)).await?;
\* without one, nothing.  Then Ok(()).
WebRTCClient_send(t) ==
    /\ At(t, "WebRTC", "send", "called")
    /\ LET i == task[t].self
           f == Frame(t, Binary(task[t].data)) IN
       IF chan[i] = "Some"
       THEN IF ChannelOpen(i)
            THEN /\ wireOut' = [wireOut EXCEPT ![i] = @ \o f]
                 /\ Return(t, Ok(<<>>), "chan")
            ELSE /\ Return(t, Err, "chan")
                 /\ UNCHANGED wireOut
       ELSE /\ Return(t, Ok(<<>>), "nochan")
            /\ UNCHANGED wireOut
    /\ UNCHANGED <<variant, ctorVars, netVars, st, broken, wire, lock, calls, acqLog>>

\* WebRTCClient::receive: with a channel, channel.recv().await?, a Binary
\* message gives its data and any other message gives vec![]; without a
\* channel, Ok(vec![]).
WebRTCClient_receive(t) ==
    /\ At(t, "WebRTC", "receive", "called")
    /\ LET i == task[t].self IN
       IF chan[i] = "Some"
       THEN IF ChannelOpen(i)
            THEN /\ FrameReady(wire[i])
                 /\ wire' = [wire EXCEPT ![i] = DropFrame(@)]
                 /\ LET m == ReadFrame(wire[i]) IN
                    Return(t, IF m.op = "bin" THEN Ok(m.data) ELSE Ok(<<>>), m.op)
            ELSE /\ Return(t, Err, "err")
                 /\ UNCHANGED wire
       ELSE /\ Return(t, Ok(<<>>), "nochan")
            /\ UNCHANGED wire
    /\ UNCHANGED <<variant, ctorVars, netVars, st, broken, wireOut, lock, calls, acqLog>>

-----------------------------------------------------------------------------
(* WebSocketClient::send and WebSocketClient::receive *)

\* self.socket.write().await completes when no other guard of the RwLock
\* is alive.
WriteNoExclusion(i) == TRUE
WriteLockFree(i) == lock[i] = {}

\* send, line 160: take the write guard.
WebSocketClient_send_lock(t) ==
    /\ At(t, "WebSocket", "send", "called")
    /\ WriteLockFree(task[t].self)
    /\ lock' = [lock EXCEPT ![task[t].self] = @ \cup {t}]
    /\ task' = [Started(t) EXCEPT ![t].pc = "io"]
    /\ acqLog' = [acqLog EXCEPT ![task[t].self] =
           Append(@, [by |-> t, data |-> task[t].data])]
    /\ UNCHANGED <<variant, ctorVars, netVars, connVars, calls, sendLog, recvLog>>

\* The guard is a local of send / receive: it is dropped when the function
\* returns, on the Ok path and on the `?` path alike.
KeepGuard(i, t) == lock[i]
DropGuard(i, t) == lock[i] \ {t}

\* The stream accepts writes while it is open and its TCP connection is up.
Writable(i) == st[i] = "open" /\ ~broken

\* send, lines 161-162: socket.send(Message::Binary(data)).await?  writes the
\* message's frame to the stream, unit by unit, and may be suspended between
\* units.  On an error `?` returns it.  Either return drops the guard.
WebSocketClient_send_io(t) ==
    /\ At(t, "WebSocket", "send", "io")
    /\ LET c == task[t]
           i == c.self
           f == Frame(t, Binary(c.data))
           u == f[c.k + 1] IN
       IF ~Writable(i)
       THEN /\ Return(t, Err, "io")
            /\ lock' = [lock EXCEPT ![i] = DropGuard(i, t)]
            /\ UNCHANGED <<wire, wireOut>>
       ELSE /\ wireOut' = [wireOut EXCEPT ![i] = Append(@, u)]
            /\ wire' = IF link[i] \in Inst
                       THEN [wire EXCEPT ![link[i]] = Append(@, u)]
                       ELSE wire
            /\ IF c.k + 1 = Len(f)
               THEN /\ Return(t, Ok(<<>>), "io")
                    /\ lock' = [lock EXCEPT ![i] = DropGuard(i, t)]
               ELSE /\ task' = [task EXCEPT ![t].k = c.k + 1]
                    /\ UNCHANGED <<lock, sendLog, recvLog>>
    /\ UNCHANGED <<variant, ctorVars, netVars, st, broken, calls, acqLog>>

\* receive, line 167: take the write guard.
WebSocketClient_receive_lock(t) ==
    /\ At(t, "WebSocket", "receive", "called")
    /\ WriteLockFree(task[t].self)
    /\ lock' = [lock EXCEPT ![task[t].self] = @ \cup {t}]
    /\ task' = [Started(t) EXCEPT ![t].pc = "io"]
    /\ UNCHANGED <<variant, ctorVars, netVars, connVars, calls, acqLog, sendLog, recvLog>>

\* What socket.next().await yields: a message, Some(Err(..)), None, or
\* nothing yet ("pending": the call stays suspended).
StreamNext(i) ==
    LET none == Binary(<<>>) IN
    IF st[i] = "ended" THEN [kind |-> "none", msg |-> none]
    ELSE IF st[i] = "closing" THEN [kind |-> "none", msg |-> none]
    ELSE IF FrameReady(wire[i]) THEN [kind |-> "msg", msg |-> ReadFrame(wire[i])]
    ELSE IF FrameBad(wire[i]) THEN [kind |-> "err", msg |-> none]
    ELSE IF broken THEN [kind |-> "err", msg |-> none]
    ELSE [kind |-> "pending", msg |-> none]

\* receive, lines 168-171: `if let Some(Ok(msg))` returns Ok(msg.into_data());
\* every other outcome of next() falls through to Ok(vec![]).
ReceiveNothing(o) == Ok(<<>>)
ReceiveResult(o) ==
    IF o.kind = "msg" THEN Ok(into_data(o.msg)) ELSE Ok(<<>>)

\* receive, lines 168-171, with the guard held across the await.
WebSocketClient_receive_next(t) ==
    /\ At(t, "WebSocket", "receive", "io")
    /\ LET i == task[t].self
           o == StreamNext(i) IN
       /\ o.kind # "pending"
       /\ wire' = IF o.kind = "msg" THEN [wire EXCEPT ![i] = DropFrame(@)] ELSE wire
       /\ st' = [st EXCEPT ![i] =
                   IF o.kind = "msg"
                   THEN (IF o.msg.op = "close" THEN "closing" ELSE @)
                   ELSE "ended"]
       /\ Return(t, ReceiveResult(o), IF o.kind = "msg" THEN o.msg.op ELSE o.kind)
       /\ lock' = [lock EXCEPT ![i] = DropGuard(i, t)]
    /\ UNCHANGED <<variant, ctorVars, netVars, broken, wireOut, calls, acqLog>>

-----------------------------------------------------------------------------
Next ==
    \/ WebTransportClient_connect
    \/ WebTransportClient_listen
    \/ QuinnClient_connect
    \/ QuinnClient_listen
    \/ WebRTCClient_connect_pc
    \/ WebRTCClient_connect_dc
    \/ WebRTCClient_listen
    \/ WebSocketClient_connect_parse
    \/ WebSocketClient_connect_tcp
    \/ WebSocketClient_connect_handshake
    \/ WebSocketClient_listen_bind
    \/ WebSocketClient_listen_accept
    \/ WebSocketClient_listen_handshake
    \/ Fp_connect
    \/ Fp_send
    \/ Fp_close
    \/ NetBreak
    \/ \E t \in Tasks :
          \/ Call(t)
          \/ WebTransportClient_send(t)
          \/ WebTransportClient_receive(t)
          \/ QuinnClient_send(t)
          \/ QuinnClient_receive(t)
          \/ WebRTCClient_send(t)
          \/ WebRTCClient_receive(t)
          \/ WebSocketClient_send_lock(t)
          \/ WebSocketClient_send_io(t)
          \/ WebSocketClient_receive_lock(t)
          \/ WebSocketClient_receive_next(t)

Spec == Init /\ [][Next]_vars

-----------------------------------------------------------------------------
(* Helpers of the properties *)

\* The finished send calls on i that returned Ok, in order of return.
OkSends(i) == SelectSeq(sendLog[i], LAMBDA e : e.ok)

\* w is a sequence of frames, the last of them possibly still incomplete,
\* and the units of each frame were all written by the same writer.
RECURSIVE WholeFrames(_)
WholeFrames(w) ==
    IF w = <<>> THEN TRUE
    ELSE LET n == w[1].v
             m == IF Len(w) - 1 < n THEN Len(w) - 1 ELSE n IN
         /\ w[1].hdr
         /\ \A k \in 2..(m + 1) : ~w[k].hdr /\ w[k].by = w[1].by
         /\ Len(w) - 1 >= n => WholeFrames(SubSeq(w, n + 2, Len(w)))

\* The payloads of the complete frames of w, in order.
RECURSIVE FramesData(_)
FramesData(w) ==
    IF ~FrameReady(w) THEN <<>>
    ELSE <<ReadFrame(w).data>> \o FramesData(DropFrame(w))

SendingOn(i) == {t \in Tasks : task[t].op = "send" /\ task[t].self = i /\ task[t].pc = "io"}

-----------------------------------------------------------------------------
(* C1: WebSocket adapter: at every moment at most one send on an instance  *)
(* is performing its I/O, everything the instance has written to its       *)
(* stream is a sequence of frames each written wholly by one send, and the *)
(* complete frames carry the payloads of the sends that returned, in order.*)
C1_SendsNeverInterleave ==
    variant = "WebSocket" =>
        \A i \in Inst :
            /\ Cardinality(SendingOn(i)) <= 1
            /\ WholeFrames(wireOut[i])
            /\ FramesData(wireOut[i]) =
                  [k \in 1..Len(OkSends(i)) |-> OkSends(i)[k].data]

\* Two sends on the same instance are in flight, one of them in the middle
\* of its frame, and the stream already carries a complete frame.
C1_Witness ==
    /\ variant = "WebSocket"
    /\ \E t, u \in Tasks :
          /\ t # u
          /\ task[t].op = "send" /\ task[u].op = "send"
          /\ task[t].self = task[u].self
          /\ task[t].pc = "io" /\ task[t].k >= 1
          /\ task[u].pc = "called"
          /\ FrameReady(wireOut[task[t].self])

(* C2: WebSocket adapter: a send called while another task's receive on    *)
(* the same instance is suspended waiting for a message (nothing to read,  *)
(* connection open) can take the stream lock, without the peer delivering  *)
(* a message or closing first.                                             *)
C2_SendProceedsWhileReceiveWaits ==
    \A t, u \in Tasks :
        ( /\ At(u, "WebSocket", "receive", "io")
          /\ StreamNext(task[u].self).kind = "pending"
          /\ At(t, "WebSocket", "send", "called")
          /\ task[t].self = task[u].self )
        => ENABLED WebSocketClient_send_lock(t)

(* C3: round trip: with the connect instance and the listen instance of    *)
(* one adapter connected to each other, a receive that returns while a     *)
(* message the other side sent successfully is still undelivered returns   *)
(* exactly that message, the oldest undelivered one.                       *)
Delivered(j) == SelectSeq(recvLog[j], LAMBDA e : e.src \in {"bin", "close"})

C3_Step ==
    \A j \in Inst :
        ( /\ ctor["cli"] = "ok" /\ ctor["srv"] = "ok"
          /\ HostPort(addr["cli"]) = HostPort(addr["srv"])
          /\ Len(recvLog'[j]) = Len(recvLog[j]) + 1
          /\ Len(Delivered(j)) < Len(OkSends(Other(j))) )
        => LET r == recvLog'[j][Len(recvLog'[j])]
               m == OkSends(Other(j))[Len(Delivered(j)) + 1] IN
           r.ok /\ r.val = m.data

C3_RoundTrip == [][C3_Step]_vars

(* C4: in every adapter a send that returned success has handed its        *)
(* message to the held connection (the successful sends of an instance are *)
(* exactly the complete messages it wrote), and no send returned success   *)
(* on a connection that was not established and open.                      *)
C4_SendNeverDrops ==
    \A i \in Inst :
        /\ Len(OkSends(i)) = Len(FramesData(wireOut[i]))
        /\ \A k \in 1..Len(OkSends(i)) :
              /\ OkSends(i)[k].data = FramesData(wireOut[i])[k]
              /\ OkSends(i)[k].up

(* C5: when reading the next message fails with an I/O or protocol error,  *)
(* receive returns an error, not an empty message.                         *)
C5_ReceiveReportsIoFailure ==
    \A i \in Inst : \A k \in 1..Len(recvLog[i]) :
        recvLog[i][k].src = "err" => ~recvLog[i][k].ok

(* C6: every receive that found the peer's clean close (the one that reads *)
(* the close and all later ones) returned the empty message.               *)
C6_ClosedStateResult ==
    variant = "WebSocket" =>
        \A i \in Inst : \A k \in 1..Len(recvLog[i]) :
            recvLog[i][k].src \in {"close", "none"} =>
                (recvLog[i][k].ok /\ recvLog[i][k].val = <<>>)

(* C7: listen of the WebTransport and of the WebRTC adapter fails for      *)
(* every address, returns no instance and performs no network action.      *)
C7_ListenUnsupported ==
    (variant \in {"WebTransport", "WebRTC"} /\ ctor["srv"] # "start") =>
        /\ ctor["srv"] = "err"
        /\ handle["srv"] = "none"
        /\ netActs["srv"] = {}
        /\ listener = "none"

\* listen was called on the WebRTC adapter with a well-formed address.
C7_Witness ==
    /\ variant = "WebRTC"
    /\ ctor["srv"] = "err"
    /\ UrlParse(addr["srv"])

(* C8: an instance returned by connect has an established connection to    *)
(* the peer at the address.                                                *)
C8_ConnectReturnsConnected ==
    ctor["cli"] = "ok" => link["cli"] # "none"

(* C9: listen on a supported transport returns an instance only after      *)
(* exactly one peer connection was accepted, and the instance is bound to  *)
(* that peer.                                                              *)
C9_ListenAcceptsOnePeer ==
    (variant \in {"Quinn", "WebSocket"} /\ ctor["srv"] = "ok") =>
        /\ Len(accepted) = 1
        /\ link["srv"] = accepted[1]

(* C10: an instance holds one connection handle and keeps it unchanged for *)
(* its whole life; the instance WebSocket listen returned is attached to   *)
(* the one accepted peer, its listener is gone, and no other peer is       *)
(* accepted or left waiting to be.                                         *)
C10_State ==
    /\ \A i \in Inst : ctor[i] = "ok" => handle[i] # "none"
    /\ (variant = "WebSocket" /\ ctor["srv"] = "ok") =>
          /\ Len(accepted) = 1
          /\ link["srv"] = accepted[1]
          /\ listener = "dropped"
          /\ backlog = <<>>
          /\ \A c \in Connectors \ {link["srv"]} : tcp[c] \notin {"pending", "accepted"}

C10_Step ==
    \A i \in Inst :
        ctor[i] = "ok" =>
            /\ ctor'[i] = "ok"
            /\ handle'[i] = handle[i]
            /\ link'[i] = link[i]
            /\ i = "srv" => accepted' = accepted

C10_OneHandlePerInstance == [](C10_State) /\ [][C10_Step]_vars

\* WebSocket listen has returned and another peer that tried the same
\* address was turned away.
C10_Witness ==
    /\ variant = "WebSocket"
    /\ ctor["srv"] = "ok"
    /\ \E c \in Connectors \ {link["srv"]} : tcp[c] \in {"reset", "refused"}

\* A string that is an address in no form an adapter parses: neither a
\* socket address nor a URL.
Malformed(a) == ~SocketAddrParse(a) /\ ~UrlParse(a)

(* C11: for every adapter, connect or listen called with a malformed       *)
(* address has failed as soon as it has acted at all, and it has bound no  *)
(* socket, created no endpoint or peer connection and tried no connection. *)
C11_MalformedAddressFailsFirst ==
    \A i \in Inst :
        (ctor[i] # "start" /\ Malformed(addr[i])) =>
            /\ ctor[i] = "err"
            /\ netActs[i] = {}

(* C12: a WebSocket receive that has the stream of a connected instance    *)
(* while no message is available returns (the empty result) by itself: its *)
(* return does not wait for the peer to send, to close or to fail.         *)
C12_ReceiveReturnsWithoutPeer ==
    \A t \in Tasks :
        ( /\ At(t, "WebSocket", "receive", "io")
          /\ st[task[t].self] = "open"
          /\ ~broken
          /\ wire[task[t].self] = <<>> )
        => ENABLED WebSocketClient_receive_next(t)

\* What the sends of log a put on the stream when each writes its whole
\* frame, one after the other in the order of a.
RECURSIVE AcquiredFrames(_)
AcquiredFrames(a) ==
    IF a = <<>> THEN <<>>
    ELSE Frame(a[1].by, Binary(a[1].data)) \o AcquiredFrames(Tail(a))

IsPrefix(v, w) == Len(v) <= Len(w) /\ SubSeq(w, 1, Len(v)) = v

(* C13: WebSocket adapter: what an instance has written to its stream is   *)
(* the frames of its send calls in the order in which the calls took the   *)
(* stream lock (the stream may end early or in a cut frame when the        *)
(* connection failed), and the messages the receive calls of the peer      *)
(* instance have returned are the first of those frames, in that order.    *)
C13_WireOrderIsLockOrder ==
    variant = "WebSocket" =>
        \A i \in Inst :
            /\ IsPrefix(wireOut[i], AcquiredFrames(acqLog[i]))
            /\ link[i] \in Inst =>
                  LET got == Delivered(link[i]) IN
                  /\ Len(got) <= Len(acqLog[i])
                  /\ \A k \in 1..Len(got) : got[k].val = acqLog[i][k].data

\* Two sends with different payloads are in flight on one instance whose
\* peer is the other instance; the one called later took the lock first and
\* its frame is being written to the wire, behind the frame of a send that
\* returned before, while the send called earlier still waits for the lock.
C13_Witness ==
    /\ variant = "WebSocket"
    /\ \E t, u \in Tasks :
          LET i == task[t].self IN
          /\ At(t, "WebSocket", "send", "io")
          /\ At(u, "WebSocket", "send", "called")
          /\ task[u].self = i
          /\ u \in task[t].after
          /\ task[u].data # task[t].data
          /\ task[t].k >= 1
          /\ Len(acqLog[i]) = 2
          /\ Len(FramesData(wireOut[i])) = 1
          /\ link[i] \in Inst

\* The calls that are inside send or receive on instance i, past the lock.
InCall(i) == {t \in Tasks : task[t].self = i /\ task[t].pc = "io"}

(* C14: WebSocket adapter: the stream lock of an instance is held only by  *)
(* calls that are still inside send or receive; a call that has returned,  *)
(* with Ok or with an error, holds nothing, so whenever no call is inside, *)
(* a waiting send or receive can take the lock.                            *)
C14_LockFreeAfterReturn ==
    variant = "WebSocket" =>
        \A i \in Inst :
            /\ lock[i] \subseteq InCall(i)
            /\ InCall(i) = {} =>
                  \A t \in Tasks :
                      /\ (At(t, "WebSocket", "send", "called") /\ task[t].self = i)
                            => ENABLED WebSocketClient_send_lock(t)
                      /\ (At(t, "WebSocket", "receive", "called") /\ task[t].self = i)
                            => ENABLED WebSocketClient_receive_lock(t)

\* A send on the instance returned an error, a receive returned too, and a
\* later call has taken the lock.
C14_Witness ==
    /\ variant = "WebSocket"
    /\ \E i \in Inst :
          /\ \E k \in 1..Len(sendLog[i]) : ~sendLog[i][k].ok
          /\ recvLog[i] # <<>>
          /\ lock[i] # {}

(* C15: WebSocket adapter, any number of tasks receiving on one instance:  *)
(* a step takes something off the instance's incoming stream only if it is *)
(* one receive call returning exactly the message at the head of the       *)
(* stream, and a receive call that returns a message has taken it off the  *)
(* stream, so no other call can return it again; between two connected     *)
(* instances, the complete messages one side has written are the messages  *)
(* the other side's receives returned followed by those still pending.     *)
C15_State ==
    variant = "WebSocket" =>
        \A j \in Inst :
            link[j] \in Inst =>
                FramesData(wireOut[link[j]]) =
                    [k \in 1..Len(Delivered(j)) |-> Delivered(j)[k].val]
                    \o FramesData(wire[j])

C15_Step ==
    variant = "WebSocket" =>
        \A j \in Inst :
            LET n == Len(recvLog[j])
                grew == Len(recvLog'[j]) = n + 1
                took == ~IsPrefix(wire[j], wire'[j])
                r == recvLog'[j][n + 1] IN
            /\ Len(recvLog'[j]) \in {n, n + 1}
            /\ took => /\ grew
                       /\ FrameReady(wire[j])
                       /\ wire'[j] = DropFrame(wire[j])
                       /\ r.ok
                       /\ r.val = ReadFrame(wire[j]).data
                       /\ r.src = ReadFrame(wire[j]).op
            /\ (grew /\ r.src \in {"bin", "close"}) => took

C15_EachMessageToOneReceive == [](C15_State) /\ [][C15_Step]_vars

\* Two tasks are inside receive on the same instance, one holding the
\* stream and one waiting for it, and a message has arrived.
C15_Witness ==
    /\ variant = "WebSocket"
    /\ \E t, u \in Tasks :
          /\ At(t, "WebSocket", "receive", "io")
          /\ At(u, "WebSocket", "receive", "called")
          /\ task[u].self = task[t].self
          /\ FrameReady(wire[task[t].self])
          /\ ReadFrame(wire[task[t].self]).data # <<>>

(* C16: WebRTC adapter: every instance that exists was returned by connect *)
(* and has its data channel present; no step takes the channel of an       *)
(* instance away; and no send or receive call has returned through the     *)
(* branch that answers Ok without touching a channel.                      *)
C16_State ==
    variant = "WebRTC" =>
        \A i \in Inst :
            /\ ctor[i] = "ok" => (i = "cli" /\ chan[i] = "Some")
            /\ \A k \in 1..Len(sendLog[i]) : sendLog[i][k].src # "nochan"
            /\ \A k \in 1..Len(recvLog[i]) : recvLog[i][k].src # "nochan"

C16_Step ==
    variant = "WebRTC" =>
        \A i \in Inst : chan[i] = "Some" => chan'[i] = "Some"

C16_DataChannelAlwaysSome == [](C16_State) /\ [][C16_Step]_vars

\* A WebRTC instance returned by connect has served a send call and a
\* receive call, both through its channel.
C16_Witness ==
    /\ variant = "WebRTC"
    /\ ctor["cli"] = "ok"
    /\ \E k \in 1..Len(sendLog["cli"]) : sendLog["cli"][k].src = "chan"
    /\ recvLog["cli"] # <<>>

====
